---------------------------- MODULE Spec2Model ----------------------------
(***************************************************************************)
(* State-machine model of the data-preparation pipeline of                 *)
(* Codewiz19/EtoE_ML_Project:                                              *)
(*   src/components/data_injection.py       ingestion and the entry point  *)
(*   src/components/data_transformation.py  preprocessor and orchestration *)
(*   src/utils.py                           save_object                    *)
(*   src/exception.py                       CustomException                *)
(* Paths are sequences of components, data frames are sequences of indexed *)
(* rows, files are records held in a small file system.                    *)
(***************************************************************************)
EXTENDS Integers, Sequences, FiniteSets, TLC

VARIABLES
    pc,                 \* position of the single thread of control
    entry,              \* "main" (data_injection.__main__) or "save_object" (direct call)
    dirs,               \* the directories that exist (set of paths)
    files,              \* file path -> file content
    perm,               \* the permutation drawn by the generator seeded with 42
    df,                 \* initialize_data_injection: df
    train_set,          \* initialize_data_injection: train_set
    test_set,           \* initialize_data_injection: test_set
    inj_ret,            \* value returned by initialize_data_injection (<<>>: none)
    train_path,         \* initiate_data_transformation: parameter train_path
    test_path,          \* initiate_data_transformation: parameter test_path
    train_df,           \* initiate_data_transformation: train_df
    test_df,            \* initiate_data_transformation: test_df
    input_train,        \* input_feature_train_df
    input_test,         \* input_feature_test_df
    target_train,       \* target_feature_train_df
    target_test,        \* target_feature_test_df
    preprocessing_obj,  \* the ColumnTransformer object
    in_train_arr,       \* input_feature_train_arr
    in_test_arr,        \* input_feature_test_arr
    train_arr,          \* train_arr
    test_arr,           \* test_arr
    tr_ret,             \* value returned by initiate_data_transformation (<<>>: none)
    sv_path,            \* save_object: parameter file_path
    sv_obj,             \* save_object: parameter obj
    err,                \* the exception that escaped to the caller (kind "none": none)
    failedAt,           \* history: the step at which the original error was raised
    orig,               \* history: the original error
    fault,              \* history: TRUE once the environment injected an I/O fault
    effects,            \* history: the side effects performed, in order
    fitLog,             \* history: the frames handed to fit, in order
    files0,             \* history: the files before the run
    dirs0,              \* history: the directories before the run
    filesAtTr           \* history: the files when initiate_data_transformation was entered

vars == << pc, entry, dirs, files, perm, df, train_set, test_set, inj_ret,
           train_path, test_path, train_df, test_df, input_train, input_test,
           target_train, target_test, preprocessing_obj, in_train_arr,
           in_test_arr, train_arr, test_arr, tr_ret, sv_path, sv_obj, err,
           failedAt, orig, fault, effects, fitLog, files0, dirs0, filesAtTr >>

---------------------------------------------------------------------------
(* Bounds of the model *)

\* largest number of data rows of the source file
MaxRows == 5

---------------------------------------------------------------------------
(* Paths: os.path.join, os.path.dirname *)

Join(a, b) == a \o b

Dirname(p) == IF Len(p) = 0 THEN << >> ELSE SubSeq(p, 1, Len(p) - 1)

\* the directories os.makedirs(d) creates: d and all its ancestors
Ancestors(d) == { SubSeq(d, 1, k) : k \in 1..Len(d) }

source_path == Join(<<"notebook", "data">>, <<"stud.csv">>)
train_data_path == Join(<<"artifacts">>, <<"train.csv">>)
test_data_path == Join(<<"artifacts">>, <<"test.csv">>)
raw_data_path == Join(<<"artifacts">>, <<"raw.csv">>)
preprocessor_obj_file_path == Join(<<"artifacts">>, <<"proprocessor.pkl">>)

\* destinations a direct caller of save_object may pass
bare_path == <<"proprocessor.pkl">>
nested_path == <<"models", "v1", "model.pkl">>

AllPaths == { source_path, train_data_path, test_data_path, raw_data_path,
              preprocessor_obj_file_path, bare_path, nested_path }

---------------------------------------------------------------------------
(* Columns *)

numerical_columns == <<"writing_score", "reading_score">>

categorical_columns == <<"gender", "race_ethnicity", "parental_level_of_education",
                         "lunch", "test_preparation_course">>

target_column_name == "math_score"

\* header of the source file
Columns == <<"gender", "race_ethnicity", "parental_level_of_education", "lunch",
             "test_preparation_course", "math_score", "reading_score", "writing_score">>

Range(s) == { s[i] : i \in 1..Len(s) }

RECURSIVE Without(_, _)
Without(s, x) ==
    IF Len(s) = 0 THEN << >>
    ELSE IF Head(s) = x THEN Without(Tail(s), x)
    ELSE <<Head(s)>> \o Without(Tail(s), x)

IsNumeric(col) == col \in Range(numerical_columns) \cup {target_column_name}

\* the missing value of a column: float NaN in a numeric column, NaN in an object column
NumNaN == -1
StrNaN == "NaN"
NaNOf(col) == IF IsNumeric(col) THEN NumNaN ELSE StrNaN

\* the values of each categorical column, in sorted order
CatDomain(col) ==
    CASE col = "gender" -> <<"female", "male">>
      [] col = "race_ethnicity" -> <<"group A", "group B">>
      [] col = "parental_level_of_education" -> <<"college", "high school">>
      [] col = "lunch" -> <<"free/reduced", "standard">>
      [] col = "test_preparation_course" -> <<"completed", "none">>

---------------------------------------------------------------------------
(* The source tables the runs are checked on *)

Datasets == {"uniform", "mixed", "missing"}

BaseRow(i) ==
    [ c \in Range(Columns) |->
        CASE c = "gender" -> "female"
          [] c = "race_ethnicity" -> "group A"
          [] c = "parental_level_of_education" -> "college"
          [] c = "lunch" -> "standard"
          [] c = "test_preparation_course" -> "none"
          [] c = "math_score" -> 10 + i
          [] c = "reading_score" -> 2 * i
          [] c = "writing_score" -> 20 - i ]

\* "uniform": one category per column; "mixed": two genders; "missing": cells
\* without a value in a numeric and in two categorical columns
SourceRow(ds, i) ==
    CASE ds = "uniform" -> BaseRow(i)
      [] ds = "mixed" ->
            [ BaseRow(i) EXCEPT !["gender"] = IF i % 2 = 1 THEN "female" ELSE "male",
                                !["math_score"] = 10 + (i % 2) ]
      [] ds = "missing" ->
            [ BaseRow(i) EXCEPT !["writing_score"] = IF i = 2 THEN NumNaN ELSE 20 - i,
                                !["lunch"] = IF i = 1 THEN StrNaN ELSE "standard",
                                !["gender"] = IF i = 3 THEN StrNaN ELSE "female" ]

Restrict(f, S) == [ c \in S |-> f[c] ]

---------------------------------------------------------------------------
(* Files and the comma-separated format: DataFrame.to_csv(index=False,     *)
(* header=True) and pd.read_csv                                            *)

UnfittedObj == [ fitted |-> FALSE, num |-> << >>, cat |-> << >> ]

FileAbsent == [ kind |-> "absent", cols |-> << >>, rows |-> << >>, obj |-> UnfittedObj ]
\* a file opened for writing whose content was not completely written
Truncated == [ kind |-> "truncated", cols |-> << >>, rows |-> << >>, obj |-> UnfittedObj ]
\* content left by something other than this run
Stale == [ kind |-> "stale", cols |-> << >>, rows |-> << >>, obj |-> UnfittedObj ]

EmptyFrame == [ cols |-> << >>, rows |-> << >> ]

\* a cell as text: a missing value is written as the empty field
ToCsvCell(col, x) == IF x = NaNOf(col) THEN << >> ELSE <<x>>

FromCsvCell(col, c) == IF Len(c) = 0 THEN NaNOf(col) ELSE c[1]

\* a header line and one line per row; the index is not written
ToCsv(frame) ==
    [ kind |-> "csv",
      cols |-> frame.cols,
      rows |-> [ i \in 1..Len(frame.rows) |->
                   [ j \in 1..Len(frame.cols) |->
                       ToCsvCell(frame.cols[j], frame.rows[i].val[frame.cols[j]]) ] ],
      obj  |-> UnfittedObj ]

ColPos(cols, c) == CHOOSE j \in 1..Len(cols) : cols[j] = c

\* the frame read back gets a fresh RangeIndex 0..n-1
ReadCsv(file) ==
    [ cols |-> file.cols,
      rows |-> [ i \in 1..Len(file.rows) |->
                   [ idx |-> i - 1,
                     val |-> [ c \in Range(file.cols) |->
                                 FromCsvCell(c, file.rows[i][ColPos(file.cols, c)]) ] ] ] ]

Readable(file) == file.kind = "csv"

\* the table held by the source file: the first n rows of a data set
SourceFrame(ds, n, cols) ==
    [ cols |-> cols,
      rows |-> [ i \in 1..n |-> [ idx |-> i - 1,
                                  val |-> Restrict(SourceRow(ds, i), Range(cols)) ] ] ]

---------------------------------------------------------------------------
(* The preprocessor: ColumnTransformer of a numeric and a categorical      *)
(* Pipeline (get_data_transformer_object), its fit and its transform       *)

RECURSIVE SumSeq(_)
SumSeq(s) == IF Len(s) = 0 THEN 0 ELSE Head(s) + SumSeq(Tail(s))

RECURSIVE Flatten(_)
Flatten(ss) == IF Len(ss) = 0 THEN << >> ELSE Head(ss) \o Flatten(Tail(ss))

RECURSIVE Insert(_, _)
Insert(x, s) ==
    IF Len(s) = 0 THEN <<x>>
    ELSE IF x <= Head(s) THEN <<x>> \o s
    ELSE <<Head(s)>> \o Insert(x, Tail(s))

RECURSIVE SortInts(_)
SortInts(s) == IF Len(s) = 0 THEN << >> ELSE Insert(Head(s), SortInts(Tail(s)))

\* the values of column c of frame X, in row order
Column(X, c) == [ i \in 1..Len(X.rows) |-> X.rows[i].val[c] ]

\* the observed (non-missing) values of a column
Observed(X, c) == SelectSeq(Column(X, c), LAMBDA x : x # NaNOf(c))

\* SimpleImputer(strategy="median"): twice the median of the observed values
Median2(vals) ==
    LET s == SortInts(vals)
        m == Len(s)
    IN IF m % 2 = 1 THEN 2 * s[(m + 1) \div 2] ELSE s[m \div 2] + s[m \div 2 + 1]

\* SimpleImputer(strategy="most_frequent"): the most frequent observed value,
\* the smallest one among the most frequent
MostFrequent(c, vals) ==
    LET dom == CatDomain(c)
        cnt(j) == Cardinality({ i \in 1..Len(vals) : vals[i] = dom[j] })
        best == CHOOSE j \in 1..Len(dom) :
                    /\ \A k \in 1..Len(dom) : cnt(k) <= cnt(j)
                    /\ \A k \in 1..(j - 1) : cnt(k) < cnt(j)
    IN dom[best]

\* the numeric Pipeline fit on column c: imputer statistic, then the
\* StandardScaler's sample count, sum and sum of squares of the imputed
\* values (all of twice the value, so that a half-integer median stays integral)
FitNumColumn(X, c) ==
    LET med2 == Median2(Observed(X, c))
        col == Column(X, c)
        imp2 == [ i \in 1..Len(col) |-> IF col[i] = NumNaN THEN med2 ELSE 2 * col[i] ]
    IN [ col |-> c, stat |-> med2, n |-> Len(col), sum |-> SumSeq(imp2),
         sq |-> SumSeq([ i \in 1..Len(imp2) |-> imp2[i] * imp2[i] ]) ]

\* the categorical Pipeline fit on column c: imputer statistic, the
\* OneHotEncoder's sorted categories, and the StandardScaler(with_mean=False)
\* count of ones of every one-hot column
FitCatColumn(X, c) ==
    LET fill == MostFrequent(c, Observed(X, c))
        col == Column(X, c)
        imp == [ i \in 1..Len(col) |-> IF col[i] = StrNaN THEN fill ELSE col[i] ]
        cats == SelectSeq(CatDomain(c), LAMBDA d : \E i \in 1..Len(imp) : imp[i] = d)
    IN [ col |-> c, fill |-> fill, n |-> Len(col), cats |-> cats,
         ones |-> [ k \in 1..Len(cats) |->
                      Cardinality({ i \in 1..Len(imp) : imp[i] = cats[k] }) ] ]

\* the columns of a branch with at least one observed value in X; a column
\* without any is skipped by the imputer
KeptColumns(X, branch) == SelectSeq(branch, LAMBDA c : Len(Observed(X, c)) > 0)

HasColumns(X) ==
    Range(numerical_columns) \cup Range(categorical_columns) \subseteq Range(X.cols)

\* fit raises on a frame lacking a declared column, on an empty frame and on a
\* branch left without any column
FitOk(X) ==
    /\ HasColumns(X)
    /\ Len(X.rows) >= 1
    /\ Len(KeptColumns(X, numerical_columns)) >= 1
    /\ Len(KeptColumns(X, categorical_columns)) >= 1

get_data_transformer_object == UnfittedObj

Fit(X) ==
    LET nk == KeptColumns(X, numerical_columns)
        ck == KeptColumns(X, categorical_columns)
    IN [ fitted |-> TRUE,
         num |-> [ k \in 1..Len(nk) |-> FitNumColumn(X, nk[k]) ],
         cat |-> [ k \in 1..Len(ck) |-> FitCatColumn(X, ck[k]) ] ]

\* OneHotEncoder() keeps the default handle_unknown="error"
KnownCategory(p, x) == x = StrNaN \/ x \in Range(p.cats)

TransformOk(obj, X) ==
    /\ obj.fitted
    /\ HasColumns(X)
    /\ \A k \in 1..Len(obj.cat) : \A i \in 1..Len(X.rows) :
           KnownCategory(obj.cat[k], X.rows[i].val[obj.cat[k].col])

\* a standardised numeric feature: (x - mean) / std, kept as the numerator
\* n*2x - sum, the sample count n and the variance numerator d = n*sq - sum^2
NumFeature(p, x) ==
    LET x2 == IF x = NumNaN THEN p.stat ELSE 2 * x
    IN [ kind |-> "num", col |-> p.col, cat |-> "", v |-> p.n * x2 - p.sum,
         n |-> p.n, d |-> p.n * p.sq - p.sum * p.sum ]

\* a one-hot feature scaled without centring: hot / std, kept as the
\* indicator v, the sample count n and the count of ones d
OneHotFeatures(p, x) ==
    LET xi == IF x = StrNaN THEN p.fill ELSE x
    IN [ k \in 1..Len(p.cats) |->
           [ kind |-> "onehot", col |-> p.col, cat |-> p.cats[k],
             v |-> IF xi = p.cats[k] THEN 1 ELSE 0, n |-> p.n, d |-> p.ones[k] ] ]

\* ColumnTransformer: the numeric branch's output, then the categorical one's
NumBranch(obj, row) ==
    [ k \in 1..Len(obj.num) |-> NumFeature(obj.num[k], row.val[obj.num[k].col]) ]

CatBranch(obj, row) ==
    Flatten([ k \in 1..Len(obj.cat) |->
                OneHotFeatures(obj.cat[k], row.val[obj.cat[k].col]) ])

TransformRow(obj, row) == NumBranch(obj, row) \o CatBranch(obj, row)

Transform(obj, X) == [ i \in 1..Len(X.rows) |-> TransformRow(obj, X.rows[i]) ]

\* the target value as an array element
TargetFeature(x) ==
    [ kind |-> "target", col |-> target_column_name, cat |-> "", v |-> x, n |-> 0, d |-> 0 ]

\* ConcatRow with the operands of np.c_ exchanged
ConcatRowTargetFirst(features, target) == <<TargetFeature(target)>> \o features

\* np.c_[features, target] for one row
ConcatRow(features, target) == features \o <<TargetFeature(target)>>

\* np.c_[arr, np.array(target)]
ConcatC(arr, target) == [ i \in 1..Len(arr) |-> ConcatRow(arr[i], target[i]) ]

\* frame.drop(columns=[c], axis=1)
Drop(X, c) ==
    [ cols |-> Without(X.cols, c),
      rows |-> [ i \in 1..Len(X.rows) |->
                   [ idx |-> X.rows[i].idx,
                     val |-> Restrict(X.rows[i].val, Range(X.cols) \ {c}) ] ] ]

---------------------------------------------------------------------------
(* Errors: src/exception.py and the except clauses                         *)

NoError == [ kind |-> "none", text |-> "", file |-> "", line |-> 0 ]

Error(kind, text) == [ kind |-> kind, text |-> text, file |-> "", line |-> 0 ]

\* the module object sys, which every except clause passes as error_detail
SysModule == [ pytype |-> "module", len |-> 0, tb_file |-> "", tb_line |-> 0 ]

\* what sys.exc_info() returns inside an except clause of file f at line l
ExcInfo(f, l) == [ pytype |-> "tuple", len |-> 3, tb_file |-> f, tb_line |-> l ]

\* exc_type, exc_value, exc_tb = error_detail
Unpacks3(error_detail) == error_detail.pytype = "tuple" /\ error_detail.len = 3

\* error_message_detail: the script name, the line number and str(error)
error_message_detail(error, error_detail) ==
    [ kind |-> "CustomException", text |-> error.text,
      file |-> error_detail.tb_file, line |-> error_detail.tb_line ]

\* the exception that leaves `raise CustomException(error, error_detail)`:
\* __init__ calls error_message_detail, whose unpacking raises TypeError on
\* anything that is not a 3-tuple
CustomException(error, error_detail) ==
    IF Unpacks3(error_detail)
    THEN error_message_detail(error, error_detail)
    ELSE Error("TypeError", "cannot unpack non-iterable module object")

\* except Exception as e: raise CustomException(e, sys)
InjectionHandler(e) == CustomException(e, SysModule)
TransformationHandler(e) == CustomException(e, SysModule)
SaveHandler(e) == CustomException(e, SysModule)

---------------------------------------------------------------------------
(* Statement order of the two methods and of save_object                   *)

\* InjSteps with the directory created before the source is read
InjStepsMakedirsFirst ==
    << "inj_makedirs", "inj_read", "inj_write_raw", "inj_split",
       "inj_write_train", "inj_write_test", "inj_return" >>

InjSteps == << "inj_read", "inj_makedirs", "inj_write_raw", "inj_split",
               "inj_write_train", "inj_write_test", "inj_return" >>

\* TrSteps with the object saved right after the fit
TrStepsSaveEarly ==
    << "tr_read_train", "tr_read_test", "tr_get_obj", "tr_drop_train",
       "tr_drop_test", "tr_fit_transform", "tr_save", "tr_transform",
       "tr_concat", "tr_return" >>

TrSteps == << "tr_read_train", "tr_read_test", "tr_get_obj", "tr_drop_train",
              "tr_drop_test", "tr_fit_transform", "tr_transform", "tr_concat",
              "tr_save", "tr_return" >>

\* the step after p in steps; last is where control goes after the last step
After(steps, p, last) ==
    LET i == CHOOSE j \in 1..Len(steps) : steps[j] = p
    IN IF i = Len(steps) THEN last ELSE steps[i + 1]

InjAfter(p) == After(InjSteps, p, "main_call")
TrAfter(p) == After(TrSteps, p, "done")

---------------------------------------------------------------------------
(* The split: train_test_split(df, test_size=0.2, random_state=42)         *)

\* NTest with the product rounded down instead of up
NTestFloor(n) == n \div 5

\* ceil(0.2 * n). The double nearest 0.2 is (2^54 + 1) / (5 * 2^54); for the
\* row counts of the model the rounded product has the ceiling of n / 5.
NTest(n) == (n + 4) \div 5

NTrain(n) == n - NTest(n)

\* the split raises when the train set would be empty
SplitOk(n) == NTrain(n) >= 1

RowPermutations(n) ==
    { p \in [1..n -> 1..n] : \A i, j \in 1..n : p[i] = p[j] => i = j }

\* the test rows are the first n_test of the permutation, the train rows the rest
TestRows(frame, p) ==
    [ k \in 1..NTest(Len(frame.rows)) |-> frame.rows[p[k]] ]

TrainRows(frame, p) ==
    [ k \in 1..NTrain(Len(frame.rows)) |-> frame.rows[p[NTest(Len(frame.rows)) + k]] ]

\* ReturnPaths with the two paths in the other order
ReturnPathsSwapped == << train_data_path, test_data_path >>

\* return (test_data_path, train_data_path)
ReturnPaths == << test_data_path, train_data_path >>

\* SavedObject taken from a second call of the constructor instead of the fitted object
SavedObjectUnfitted == get_data_transformer_object

\* save_object(file_path=..., obj=preprocessing_obj)
SavedObject == preprocessing_obj

\* dill.dump(obj, file_obj): the bytes written, and dill.load of them
Dump(obj) == [ kind |-> "dill", cols |-> << >>, rows |-> << >>, obj |-> obj ]
Load(file) == file.obj

---------------------------------------------------------------------------
(* State *)

fsVars == << dirs, files >>
injVars == << df, train_set, test_set, inj_ret >>
trFrames == << train_df, test_df, input_train, input_test, target_train, target_test >>
trArrays == << in_train_arr, in_test_arr, train_arr, test_arr, tr_ret >>
trParams == << train_path, test_path >>
svVars == << sv_path, sv_obj >>
errVars == << err, failedAt, orig, fault >>
fixedVars == << entry, perm, files0, dirs0 >>

NoFiles == [ p \in AllPaths |-> FileAbsent ]

\* the artifacts directory before the run: absent, or holding the files of an
\* earlier run
ArtifactStates ==
    { [ dirs |-> {}, files |-> NoFiles ],
      [ dirs |-> { <<"artifacts">> },
        files |-> [ p \in AllPaths |->
                      IF p \in { train_data_path, test_data_path, raw_data_path,
                                 preprocessor_obj_file_path }
                      THEN Stale ELSE FileAbsent ] ] }

\* the source file: absent, or a table of 0..MaxRows rows of a data set, or
\* such a table without the target column
SourceStates ==
    { [ file |-> FileAbsent, n |-> 0 ] } \cup
    { [ file |-> ToCsv(SourceFrame(ds, n, Columns)), n |-> n ] :
        ds \in Datasets, n \in 0..MaxRows } \cup
    { [ file |-> ToCsv(SourceFrame("uniform", n, Without(Columns, target_column_name))),
        n |-> n ] : n \in 0..MaxRows }

Locals ==
    /\ df = EmptyFrame
    /\ train_set = EmptyFrame
    /\ test_set = EmptyFrame
    /\ inj_ret = << >>
    /\ train_path = << >>
    /\ test_path = << >>
    /\ train_df = EmptyFrame
    /\ test_df = EmptyFrame
    /\ input_train = EmptyFrame
    /\ input_test = EmptyFrame
    /\ target_train = << >>
    /\ target_test = << >>
    /\ in_train_arr = << >>
    /\ in_test_arr = << >>
    /\ train_arr = << >>
    /\ test_arr = << >>
    /\ tr_ret = << >>
    /\ err = NoError
    /\ failedAt = ""
    /\ orig = NoError
    /\ fault = FALSE
    /\ effects = << >>
    /\ fitLog = << >>

\* python -m src.components.data_injection
Init ==
    /\ pc = InjSteps[1]
    /\ entry = "main"
    /\ \E a \in ArtifactStates, s \in SourceStates :
         /\ dirs = a.dirs \cup Ancestors(Dirname(source_path))
         /\ files = [ a.files EXCEPT ![source_path] = s.file ]
         /\ perm \in RowPermutations(s.n)
    /\ files0 = files
    /\ dirs0 = dirs
    /\ filesAtTr = files
    /\ preprocessing_obj = UnfittedObj
    /\ sv_path = << >>
    /\ sv_obj = UnfittedObj
    /\ Locals

Effect(op, path) == [ op |-> op, path |-> path ]

\* control leaves through the except clauses with the exception raised there
Raise(step, e, escaped) ==
    /\ pc' = "raised"
    /\ err' = escaped
    /\ failedAt' = step
    /\ orig' = e

\* pd.read_csv(path): the frame, or the error it raises
ReadError(path) ==
    IF files[path].kind = "absent"
    THEN Error("FileNotFoundError", "No such file or directory")
    ELSE Error("ParserError", "Error tokenizing data")

\* the outcomes of writing content to path: written; or, on an I/O fault, the
\* file as it was (the open failed) or truncated (the write failed)
WriteOutcomes(path, content) ==
    IF Dirname(path) \in dirs \/ Len(Dirname(path)) = 0
    THEN { [ ok |-> TRUE, files |-> [ files EXCEPT ![path] = content ] ],
           [ ok |-> FALSE, files |-> files ],
           [ ok |-> FALSE, files |-> [ files EXCEPT ![path] = Truncated ] ] }
    ELSE { [ ok |-> FALSE, files |-> files ] }

---------------------------------------------------------------------------
(* DataInjection.initialize_data_injection *)

\* df = pd.read_csv(os.path.join("notebook", "data", "stud.csv"))
InjRead ==
    /\ pc = "inj_read"
    /\ \/ /\ Readable(files[source_path])
          /\ df' = ReadCsv(files[source_path])
          /\ effects' = Append(effects, Effect("read", source_path))
          /\ pc' = InjAfter("inj_read")
          /\ UNCHANGED errVars
       \/ /\ ~Readable(files[source_path])
          /\ Raise("inj_read", ReadError(source_path),
                   InjectionHandler(ReadError(source_path)))
          /\ UNCHANGED << df, effects, fault >>
       \/ /\ Readable(files[source_path])
          /\ Raise("inj_read", Error("OSError", "Input/output error"),
                   InjectionHandler(Error("OSError", "Input/output error")))
          /\ fault' = TRUE
          /\ UNCHANGED << df, effects >>
    /\ UNCHANGED << fsVars, train_set, test_set, inj_ret, trFrames, trArrays,
                    trParams, preprocessing_obj, svVars, fixedVars, fitLog, filesAtTr >>

\* os.makedirs(os.path.dirname(train_data_path), exist_ok=True)
InjMakedirs ==
    /\ pc = "inj_makedirs"
    /\ \/ /\ dirs' = dirs \cup Ancestors(Dirname(train_data_path))
          /\ effects' = Append(effects, Effect("makedirs", Dirname(train_data_path)))
          /\ pc' = InjAfter("inj_makedirs")
          /\ UNCHANGED errVars
       \/ /\ Raise("inj_makedirs", Error("OSError", "Permission denied"),
                   InjectionHandler(Error("OSError", "Permission denied")))
          /\ fault' = TRUE
          /\ UNCHANGED << dirs, effects >>
    /\ UNCHANGED << files, injVars, trFrames, trArrays, trParams,
                    preprocessing_obj, svVars, fixedVars, fitLog, filesAtTr >>

\* frame.to_csv(path, index=False, header=True) at step `step`
InjWrite(step, path, frame) ==
    /\ pc = step
    /\ \E w \in WriteOutcomes(path, ToCsv(frame)) :
         /\ files' = w.files
         /\ IF w.ok
            THEN /\ effects' = Append(effects, Effect("write", path))
                 /\ pc' = InjAfter(step)
                 /\ UNCHANGED errVars
            ELSE /\ Raise(step, Error("OSError", "No space left on device"),
                          InjectionHandler(Error("OSError", "No space left on device")))
                 /\ fault' = TRUE
                 /\ UNCHANGED effects
    /\ UNCHANGED << dirs, injVars, trFrames, trArrays, trParams,
                    preprocessing_obj, svVars, fixedVars, fitLog, filesAtTr >>

InjWriteRaw == InjWrite("inj_write_raw", raw_data_path, df)

\* train_set, test_set = train_test_split(df, test_size=0.2, random_state=42)
InjSplit ==
    /\ pc = "inj_split"
    /\ IF SplitOk(Len(df.rows))
       THEN /\ train_set' = [ cols |-> df.cols, rows |-> TrainRows(df, perm) ]
            /\ test_set' = [ cols |-> df.cols, rows |-> TestRows(df, perm) ]
            /\ effects' = Append(effects, Effect("split", << >>))
            /\ pc' = InjAfter("inj_split")
            /\ UNCHANGED errVars
       ELSE /\ Raise("inj_split", Error("ValueError", "the resulting train set will be empty"),
                     InjectionHandler(Error("ValueError", "the resulting train set will be empty")))
            /\ UNCHANGED << train_set, test_set, effects, fault >>
    /\ UNCHANGED << fsVars, df, inj_ret, trFrames, trArrays, trParams,
                    preprocessing_obj, svVars, fixedVars, fitLog, filesAtTr >>

InjWriteTrain == InjWrite("inj_write_train", train_data_path, train_set)

InjWriteTest == InjWrite("inj_write_test", test_data_path, test_set)

InjReturn ==
    /\ pc = "inj_return"
    /\ inj_ret' = ReturnPaths
    /\ pc' = InjAfter("inj_return")
    /\ UNCHANGED << fsVars, df, train_set, test_set, trFrames, trArrays, trParams,
                    preprocessing_obj, svVars, errVars, fixedVars, effects, fitLog,
                    filesAtTr >>

---------------------------------------------------------------------------
(* __main__ of data_injection.py *)

\* train_data, test_data = obj.initialize_data_injection()
\* data_transformation.initiate_data_transformation(train_data, test_data)
MainCall ==
    /\ pc = "main_call"
    /\ train_path' = inj_ret[1]
    /\ test_path' = inj_ret[2]
    /\ filesAtTr' = files
    /\ pc' = TrSteps[1]
    /\ UNCHANGED << fsVars, injVars, trFrames, trArrays, preprocessing_obj, svVars,
                    errVars, fixedVars, effects, fitLog >>

---------------------------------------------------------------------------
(* DataTransformation.initiate_data_transformation *)

\* frame = pd.read_csv(path) at step `step`; frame1 is the frame assigned
TrRead(step, path, frame1) ==
    /\ pc = step
    /\ \/ /\ Readable(files[path])
          /\ frame1 = ReadCsv(files[path])
          /\ effects' = Append(effects, Effect("read", path))
          /\ pc' = TrAfter(step)
          /\ UNCHANGED errVars
       \/ /\ ~Readable(files[path])
          /\ Raise(step, ReadError(path), TransformationHandler(ReadError(path)))
          /\ frame1 = EmptyFrame
          /\ UNCHANGED << effects, fault >>
       \/ /\ Readable(files[path])
          /\ Raise(step, Error("OSError", "Input/output error"),
                   TransformationHandler(Error("OSError", "Input/output error")))
          /\ fault' = TRUE
          /\ frame1 = EmptyFrame
          /\ UNCHANGED effects
    /\ UNCHANGED << fsVars, injVars, input_train, input_test, target_train,
                    target_test, trArrays, trParams, preprocessing_obj, svVars,
                    fixedVars, fitLog, filesAtTr >>

\* train_df = pd.read_csv(train_path)
TrReadTrain == TrRead("tr_read_train", train_path, train_df') /\ UNCHANGED test_df

\* test_df = pd.read_csv(test_path)
TrReadTest == TrRead("tr_read_test", test_path, test_df') /\ UNCHANGED train_df

\* preprocessing_obj = self.get_data_transformer_object()
TrGetObj ==
    /\ pc = "tr_get_obj"
    /\ preprocessing_obj' = get_data_transformer_object
    /\ pc' = TrAfter("tr_get_obj")
    /\ UNCHANGED << fsVars, injVars, trFrames, trArrays, trParams, svVars, errVars,
                    fixedVars, effects, fitLog, filesAtTr >>

\* input = frame.drop(columns=[target_column_name], axis=1)
\* target = frame[target_column_name]
\* input1 and target1 are the two values assigned
TrDrop(step, frame, input1, target1) ==
    /\ pc = step
    /\ IF target_column_name \in Range(frame.cols)
       THEN /\ input1 = Drop(frame, target_column_name)
            /\ target1 = Column(frame, target_column_name)
            /\ pc' = TrAfter(step)
            /\ UNCHANGED errVars
       ELSE /\ Raise(step, Error("KeyError", "['math_score'] not found in axis"),
                     TransformationHandler(Error("KeyError", "['math_score'] not found in axis")))
            /\ input1 = EmptyFrame
            /\ target1 = << >>
            /\ UNCHANGED fault
    /\ UNCHANGED << fsVars, injVars, train_df, test_df, trArrays, trParams,
                    preprocessing_obj, svVars, fixedVars, effects, fitLog, filesAtTr >>

TrDropTrain ==
    /\ TrDrop("tr_drop_train", train_df, input_train', target_train')
    /\ UNCHANGED << input_test, target_test >>

TrDropTest ==
    /\ TrDrop("tr_drop_test", test_df, input_test', target_test')
    /\ UNCHANGED << input_train, target_train >>

\* input_feature_train_arr = preprocessing_obj.fit_transform(input_feature_train_df)
TrFitTransform ==
    /\ pc = "tr_fit_transform"
    /\ IF FitOk(input_train)
       THEN /\ preprocessing_obj' = Fit(input_train)
            /\ in_train_arr' = Transform(Fit(input_train), input_train)
            /\ fitLog' = Append(fitLog, input_train)
            /\ effects' = Append(effects, Effect("fit", train_path))
            /\ pc' = TrAfter("tr_fit_transform")
            /\ UNCHANGED errVars
       ELSE /\ Raise("tr_fit_transform", Error("ValueError", "fit failed"),
                     TransformationHandler(Error("ValueError", "fit failed")))
            /\ UNCHANGED << preprocessing_obj, in_train_arr, fitLog, effects, fault >>
    /\ UNCHANGED << fsVars, injVars, trFrames, in_test_arr, train_arr, test_arr,
                    tr_ret, trParams, svVars, fixedVars, filesAtTr >>

\* input_feature_test_arr = preprocessing_obj.transform(input_feature_test_df)
TrTransform ==
    /\ pc = "tr_transform"
    /\ IF TransformOk(preprocessing_obj, input_test)
       THEN /\ in_test_arr' = Transform(preprocessing_obj, input_test)
            /\ effects' = Append(effects, Effect("transform", test_path))
            /\ pc' = TrAfter("tr_transform")
            /\ UNCHANGED errVars
       ELSE /\ Raise("tr_transform", Error("ValueError", "Found unknown categories"),
                     TransformationHandler(Error("ValueError", "Found unknown categories")))
            /\ UNCHANGED << in_test_arr, effects, fault >>
    /\ UNCHANGED << fsVars, injVars, trFrames, in_train_arr, train_arr, test_arr,
                    tr_ret, trParams, preprocessing_obj, svVars, fixedVars, fitLog,
                    filesAtTr >>

\* train_arr = np.c_[input_feature_train_arr, np.array(target_feature_train_df)]
\* test_arr = np.c_[input_feature_test_arr, np.array(target_feature_test_df)]
TrConcat ==
    /\ pc = "tr_concat"
    /\ train_arr' = ConcatC(in_train_arr, target_train)
    /\ test_arr' = ConcatC(in_test_arr, target_test)
    /\ pc' = TrAfter("tr_concat")
    /\ UNCHANGED << fsVars, injVars, trFrames, in_train_arr, in_test_arr, tr_ret,
                    trParams, preprocessing_obj, svVars, errVars, fixedVars, effects,
                    fitLog, filesAtTr >>

\* save_object(file_path=preprocessor_obj_file_path, obj=preprocessing_obj)
TrSave ==
    /\ pc = "tr_save"
    /\ sv_path' = preprocessor_obj_file_path
    /\ sv_obj' = SavedObject
    /\ pc' = "sv_makedirs"
    /\ UNCHANGED << fsVars, injVars, trFrames, trArrays, trParams, preprocessing_obj,
                    errVars, fixedVars, effects, fitLog, filesAtTr >>

\* return (train_arr, test_arr, preprocessor_obj_file_path)
TrReturn ==
    /\ pc = "tr_return"
    /\ tr_ret' = [ train_arr |-> train_arr, test_arr |-> test_arr,
                   path |-> preprocessor_obj_file_path ]
    /\ pc' = TrAfter("tr_return")
    /\ UNCHANGED << fsVars, injVars, trFrames, in_train_arr, in_test_arr, train_arr,
                    test_arr, trParams, preprocessing_obj, svVars, errVars, fixedVars,
                    effects, fitLog, filesAtTr >>

---------------------------------------------------------------------------
(* save_object(file_path, obj) *)

\* an exception leaving save_object passes the except clause of the caller too
SaveEscapes(e) ==
    IF entry = "main" THEN TransformationHandler(SaveHandler(e)) ELSE SaveHandler(e)

SaveAfter == IF entry = "main" THEN TrAfter("tr_save") ELSE "done"

\* dir_path = os.path.dirname(file_path); os.makedirs(dir_path, exist_ok=True)
\* os.makedirs("") raises FileNotFoundError
SaveMakedirs ==
    /\ pc = "sv_makedirs"
    /\ \/ /\ Len(Dirname(sv_path)) > 0
          /\ dirs' = dirs \cup Ancestors(Dirname(sv_path))
          /\ effects' = Append(effects, Effect("makedirs", Dirname(sv_path)))
          /\ pc' = "sv_dump"
          /\ UNCHANGED errVars
       \/ /\ Len(Dirname(sv_path)) = 0
          /\ Raise("sv_makedirs", Error("FileNotFoundError", "No such file or directory: ''"),
                   SaveEscapes(Error("FileNotFoundError", "No such file or directory: ''")))
          /\ UNCHANGED << dirs, effects, fault >>
       \/ /\ Len(Dirname(sv_path)) > 0
          /\ Raise("sv_makedirs", Error("OSError", "Permission denied"),
                   SaveEscapes(Error("OSError", "Permission denied")))
          /\ fault' = TRUE
          /\ UNCHANGED << dirs, effects >>
    /\ UNCHANGED << files, injVars, trFrames, trArrays, trParams, preprocessing_obj,
                    svVars, fixedVars, fitLog, filesAtTr >>

\* with open(file_path, "wb") as file_obj: dill.dump(obj, file_obj)
SaveDump ==
    /\ pc = "sv_dump"
    /\ \E w \in WriteOutcomes(sv_path, Dump(sv_obj)) :
         /\ files' = w.files
         /\ IF w.ok
            THEN /\ effects' = Append(effects, Effect("write", sv_path))
                 /\ pc' = SaveAfter
                 /\ UNCHANGED errVars
            ELSE /\ Raise("sv_dump", Error("OSError", "No space left on device"),
                          SaveEscapes(Error("OSError", "No space left on device")))
                 /\ fault' = TRUE
                 /\ UNCHANGED effects
    /\ UNCHANGED << dirs, injVars, trFrames, trArrays, trParams, preprocessing_obj,
                    svVars, fixedVars, fitLog, filesAtTr >>

---------------------------------------------------------------------------
(* Specifications *)

Next ==
    \/ InjRead \/ InjMakedirs \/ InjWriteRaw \/ InjSplit \/ InjWriteTrain
    \/ InjWriteTest \/ InjReturn \/ MainCall
    \/ TrReadTrain \/ TrReadTest \/ TrGetObj \/ TrDropTrain \/ TrDropTest
    \/ TrFitTransform \/ TrTransform \/ TrConcat \/ TrSave \/ TrReturn
    \/ SaveMakedirs \/ SaveDump

\* the entry point: ingestion, then transformation on the paths it returned
Spec == Init /\ [][Next]_vars

\* the objects a direct caller hands to save_object: the preprocessor as
\* constructed, and fitted on the first rows of each data set
SaveObjects ==
    { UnfittedObj } \cup
    { Fit(Drop(SourceFrame(ds, n, Columns), target_column_name)) :
        ds \in Datasets, n \in 1..MaxRows }

\* the file system a direct caller of save_object may find
SaveFsStates ==
    { [ dirs |-> d, files |-> f ] :
        d \in { {}, { <<"artifacts">> }, { <<"artifacts">>, <<"models">>, <<"models", "v1">> } },
        f \in { NoFiles,
                [ p \in AllPaths |->
                    IF p \in { preprocessor_obj_file_path, bare_path }
                    THEN Stale ELSE FileAbsent ] } }

\* a direct call save_object(file_path, obj)
InitSave ==
    /\ pc = "sv_makedirs"
    /\ entry = "save_object"
    /\ sv_path \in { preprocessor_obj_file_path, bare_path, nested_path }
    /\ sv_obj \in SaveObjects
    /\ \E s \in SaveFsStates :
         /\ dirs = s.dirs
         /\ files = s.files
         /\ (s.files[preprocessor_obj_file_path].kind # "absent" => <<"artifacts">> \in s.dirs)
    /\ perm = << >>
    /\ files0 = files
    /\ dirs0 = dirs
    /\ filesAtTr = files
    /\ preprocessing_obj = UnfittedObj
    /\ Locals

NextSave == SaveMakedirs \/ SaveDump

SpecSave == InitSave /\ [][NextSave]_vars

---------------------------------------------------------------------------
(* Properties *)

IsPrefix(s, t) == Len(s) <= Len(t) /\ \A i \in 1..Len(s) : s[i] = t[i]

IdxSet(frame) == { frame.rows[i].idx : i \in 1..Len(frame.rows) }

\* the predictor columns of a partition as read back from its file
Predictors(frame) == Drop(ReadCsv(ToCsv(frame)), target_column_name)

\* the source file holds a table with the eight columns and at least one row
ValidInput ==
    /\ Readable(files0[source_path])
    /\ files0[source_path].cols = Columns
    /\ Len(files0[source_path].rows) >= 1

SplitDone == \E i \in 1..Len(effects) : effects[i].op = "split"

IngestionFailed == pc = "raised" /\ failedAt \in Range(InjSteps)

\* C1 (as claimed): the preprocessor is fit once, on the predictor columns of
\* the train partition (train.csv); the test partition never passes through fit.
C1_FitOnlyOnTrainPartition ==
    /\ Len(fitLog) <= 1
    /\ \A k \in 1..Len(fitLog) :
         /\ train_path = train_data_path
         /\ fitLog[k] = Predictors(train_set)
    /\ (pc = "done" => Len(fitLog) = 1)

\* C2 (as claimed): the first returned array has as many rows as the train
\* partition and the second as many as the test partition (4 and 1 of 5 rows,
\* as 800 and 200 of 1000).
C2_ArrayRowCounts ==
    pc = "done" =>
        /\ Len(tr_ret.train_arr) = Len(train_set.rows)
        /\ Len(tr_ret.test_arr) = Len(test_set.rows)
        /\ (Len(df.rows) = 5 => Len(tr_ret.train_arr) = 4 /\ Len(tr_ret.test_arr) = 1)

\* C3 (as claimed): every failure reaches the caller as CustomException, with
\* the original error's message, the file name and the line number.
C3_OnlyCustomException ==
    pc = "raised" =>
        /\ err.kind = "CustomException"
        /\ err.text = orig.text
        /\ err.file # ""
        /\ err.line > 0

\* the partition a successful split leaves: every row in exactly one part,
\* the test part holding the ceiling of a fifth of the rows
PartitionOk ==
    LET n == Len(df.rows)
        a == Len(train_set.rows)
        b == Len(test_set.rows)
    IN /\ a + b = n
       /\ Cardinality(IdxSet(train_set)) = a
       /\ Cardinality(IdxSet(test_set)) = b
       /\ IdxSet(train_set) \cap IdxSet(test_set) = {}
       /\ IdxSet(train_set) \cup IdxSet(test_set) = IdxSet(df)
       /\ \A i \in 1..a : train_set.rows[i] \in Range(df.rows)
       /\ \A i \in 1..b : test_set.rows[i] \in Range(df.rows)
       /\ 5 * b >= n
       /\ 5 * (b - 1) < n

\* C4 (as claimed): for every valid input table, of 1 or 2 rows too, ingestion
\* succeeds and partitions the rows.
C4_SplitsEveryRowCount ==
    /\ (ValidInput /\ ~fault => ~IngestionFailed)
    /\ (SplitDone => PartitionOk)

\* C4 (amended): for every valid input table of at least 2 rows ingestion
\* succeeds, and whenever the split is done every raw row is in exactly one of
\* the two partitions, the test partition holding ceil(n/5) rows; a table of
\* fewer than 2 rows is never split.
C4_SplitsFromTwoRows ==
    /\ (ValidInput /\ Len(files0[source_path].rows) >= 2 /\ ~fault => ~IngestionFailed)
    /\ (SplitDone => Len(df.rows) >= 2 /\ PartitionOk)
    /\ (Readable(files0[source_path]) /\ Len(files0[source_path].rows) < 2
          => pc \notin { "inj_write_train", "inj_write_test", "inj_return", "main_call" })

C4_Witness ==
    /\ pc = "main_call"
    /\ Len(df.rows) = 5
    /\ Len(test_set.rows) = 1
    /\ Len(train_set.rows) = 4

\* C5 (as claimed): for every object and destination path, a bare file name
\* too, save_object succeeds unless the environment fails, the parent
\* directory exists and the file holds the serialization of the object.
C5_SavesToAnyPath ==
    (pc \in { "done", "raised" } /\ ~fault) =>
        /\ pc = "done"
        /\ (Len(Dirname(sv_path)) > 0 => Dirname(sv_path) \in dirs)
        /\ files[sv_path] = Dump(sv_obj)

RowLayoutOk(row, target) ==
    LET m == Len(row)
    IN /\ m >= 1
       /\ row[m].kind = "target"
       /\ row[m].v = target
       /\ \A i \in 1..(m - 1) : row[i].kind \in { "num", "onehot" }
       /\ \A i, j \in 1..(m - 1) :
            (row[i].kind = "onehot" /\ row[j].kind = "num") => j < i
       /\ \A i \in 1..(m - 1) :
            /\ (row[i].kind = "num" => row[i].col \in Range(numerical_columns))
            /\ (row[i].kind = "onehot" => row[i].col \in Range(categorical_columns))

ArrayLayoutOk(arr, frame) ==
    /\ Len(arr) = Len(frame.rows)
    /\ \A i \in 1..Len(arr) :
         RowLayoutOk(arr[i], frame.rows[i].val[target_column_name])

\* C8: the numeric and the categorical column sets are disjoint, cover the
\* predictors of the eight-column input and exclude the target; each returned
\* array row holds the numeric features, then the categorical ones, then the
\* untransformed target of the same row.
C8_ColumnsAndLayout ==
    /\ Range(numerical_columns) \cap Range(categorical_columns) = {}
    /\ Range(numerical_columns) \cup Range(categorical_columns)
          = Range(Columns) \ { target_column_name }
    /\ target_column_name \notin Range(numerical_columns) \cup Range(categorical_columns)
    /\ (pc = "done" =>
            /\ ArrayLayoutOk(tr_ret.train_arr, train_df)
            /\ ArrayLayoutOk(tr_ret.test_arr, test_df)
            /\ \A i \in 1..Len(tr_ret.train_arr) :
                  \E k \in 1..Len(tr_ret.train_arr[i]) :
                      tr_ret.train_arr[i][k].kind = "num")

C8_Witness ==
    /\ pc = "done"
    /\ Len(tr_ret.test_arr) >= 3
    /\ \E k \in 1..Len(tr_ret.test_arr[1]) : tr_ret.test_arr[1][k].kind = "onehot"

\* the steps of initiate_data_transformation before persistence
BeforePersistence ==
    { "tr_read_train", "tr_read_test", "tr_get_obj", "tr_drop_train", "tr_drop_test",
      "tr_fit_transform", "tr_transform", "tr_concat" }

\* C9: when initiate_data_transformation fails at a step before persistence,
\* nothing is returned, save_object was not called and no file, the
\* preprocessor file included, differs from what it was at the call.
C9_NoPartialOutput ==
    (pc = "raised" /\ failedAt \in BeforePersistence) =>
        /\ Len(tr_ret) = 0
        /\ Len(train_arr) = 0
        /\ Len(test_arr) = 0
        /\ Len(sv_path) = 0
        /\ files = filesAtTr
        /\ files[preprocessor_obj_file_path] = files0[preprocessor_obj_file_path]

C9_Witness ==
    /\ pc = "raised"
    /\ failedAt = "tr_transform"
    /\ preprocessing_obj.fitted
    /\ files0[preprocessor_obj_file_path].kind = "stale"

\* the effects of ingestion, in their order
InjOrder ==
    << Effect("read", source_path), Effect("makedirs", Dirname(train_data_path)),
       Effect("write", raw_data_path), Effect("split", << >>),
       Effect("write", train_data_path), Effect("write", test_data_path) >>

\* the files an ingestion that failed at step s has written
WrittenBefore(s) ==
    CASE s \in { "inj_read", "inj_makedirs", "inj_write_raw" } -> {}
      [] s \in { "inj_split", "inj_write_train" } -> { raw_data_path }
      [] s = "inj_write_test" -> { raw_data_path, train_data_path }
      [] OTHER -> { raw_data_path, train_data_path, test_data_path }

\* the file an ingestion that failed at step s was writing
WrittenAt(s) ==
    CASE s = "inj_write_raw" -> { raw_data_path }
      [] s = "inj_write_train" -> { train_data_path }
      [] s = "inj_write_test" -> { test_data_path }
      [] OTHER -> {}

ContentOf(p) ==
    CASE p = raw_data_path -> ToCsv(df)
      [] p = train_data_path -> ToCsv(train_set)
      [] p = test_data_path -> ToCsv(test_set)

\* C10: ingestion performs read, makedirs, write raw, split, write train, write
\* test in this order and stops at the first failure without rollback: a
\* failed read leaves directories and files untouched; after a later failure
\* the files written before it hold what was written, those after it are as
\* before the run, and no paths are returned.
C10_OrderAndNoRollback ==
    /\ IsPrefix(SubSeq(effects, 1, IF Len(effects) < 6 THEN Len(effects) ELSE 6), InjOrder)
    /\ (pc \in Range(InjSteps) \cup { "main_call" } => IsPrefix(effects, InjOrder))
    /\ (IngestionFailed =>
            /\ IsPrefix(effects, InjOrder)
            /\ Len(inj_ret) = 0
            /\ (failedAt = "inj_read" => dirs = dirs0 /\ files = files0)
            /\ \A p \in WrittenBefore(failedAt) : files[p] = ContentOf(p)
            /\ \A p \in AllPaths \ (WrittenBefore(failedAt) \cup WrittenAt(failedAt)) :
                  files[p] = files0[p])

C10_Witness ==
    /\ IngestionFailed
    /\ failedAt = "inj_write_train"
    /\ files0[raw_data_path].kind = "absent"
    /\ files[raw_data_path] = ToCsv(df)
    /\ files[test_data_path].kind = "absent"

=============================================================================
